---- MODULE Spec2Model ----
(***************************************************************************)
(* A model of pnwtl/extapp.cpp: the App facade of Programmers Notepad.     *)
(*                                                                         *)
(* The facade owns the extension list (m_exts), the event-sink list        *)
(* (m_sinks), the settings object, the global options object and the       *)
(* command dispatcher.  Everything the facade does to its collaborators    *)
(* (sinks, extensions, the script backend, the log, the UNEXPECTED         *)
(* handler, settings/options/dispatcher objects) is a call; the variable   *)
(* trace records every call made to the facade and every call the facade   *)
(* makes, in program order.  The facade is single threaded and every       *)
(* method runs to completion, so each method is one action.                *)
(*                                                                         *)
(* Strings are sequences of one-character strings.  Callbacks (sinks,      *)
(* Extension, Script) are taken to return normally and not to call back    *)
(* into the facade.                                                        *)
(***************************************************************************)
EXTENDS Integers, Sequences, FiniteSets, TLC

VARIABLES
    phase,                  \* "none" | "constructed" | "destroyed" | "crashed": lifetime of the App object
    extensions,             \* the list m_settings->GetExtensions() returns (configuration)
    pending,                \* the command string the host shell passes to RunExtensionCommand
    dirExists,              \* whether the user settings directory exists on disk
    dirFiles,               \* whether that directory holds any file
    uiSettings,             \* the PNSK_INTERFACE namespace of the options: "set" | "cleared"
    current,                \* the document of the current editor, "NULL" when there is none
    heap,                   \* the character buffers allocated by InputBox, by handle
    m_bCanLoadExtensions,   \* App::m_bCanLoadExtensions
    m_settings,             \* App::m_settings:      "NULL" | "alive" | "deleted"
    options,                \* g_Context.options:    "NULL" | "alive"
    m_dispatch,             \* App::m_dispatch:      "NULL" | "alive" | "deleted"
    m_sinks,                \* App::m_sinks, a std::list of sink pointers
    m_exts,                 \* App::m_exts, the list of owned Extension objects
    trace                   \* every call received and made, in program order

vars == <<phase, extensions, pending, dirExists, dirFiles, uiSettings, current, heap, m_bCanLoadExtensions, m_settings,
          options, m_dispatch, m_sinks, m_exts, trace>>

-----------------------------------------------------------------------------
(* Bounds and input sets *)

\* calls made to the facade in one behaviour of Spec (constructor included)
MaxOps == 5
\* calls made to the facade in one behaviour of SpecLoad
MaxLoadOps == 3
\* calls made to the facade in one behaviour of SpecRun
MaxRunOps == 2
\* calls made to the facade in one behaviour of SpecData
MaxDataOps == 5
\* calls made to the facade in one behaviour of SpecDocs
MaxDocOps == 3
\* calls made to the facade in one behaviour of SpecInput
MaxInputOps == 4
\* entries in the configured extension list
MaxPaths == 3
\* characters in a command string
MaxCmdLen == 6

Sinks == {"s1", "s2"}
Docs  == {"d1", "d2"}

\* extension path strings: enabled ones (the empty string among them), and
\* disabled ones with and without text after the marker
Paths == { <<>>, <<"a", "#">>, <<"#", "a">>, <<"!">> }

CmdChars == {":", "e", "x", "t", "E"}

SeqsUpTo(S, n) == UNION { [1..k -> S] : k \in 0..n }

PathLists == SeqsUpTo(Paths, MaxPaths)
Commands  == SeqsUpTo(CmdChars, MaxCmdLen)

\* runner ids: the reserved one and ones that differ from it by being empty,
\* longer, shorter, in another case or surrounded by blanks
RunnerIds == { <<>>,
               <<"e", "x", "t">>,
               <<"e", "x", "t", "r", "a">>,
               <<"E", "X", "T">>,
               <<" ", "e", "x", "t">>,
               <<"E", "x", "t">>,
               <<"e", "x">>,
               <<"x", "t">>,
               <<"e", "x", "t", " ">>,
               <<"e", "X", "t">> }

\* what follows the first ':' of a command
Payloads == { <<>>,
              <<"f", "o", "o">>,
              <<"e", "x", "t">>,
              <<"e", "x", "t", ":", "f", "o", "o">> }

\* the commands made of a runner id, a ':' and a payload, and the runner
\* ids alone
IdCommands == { id \o <<":">> \o p : id \in RunnerIds, p \in Payloads } \cup RunnerIds

\* the extension list of the lifecycle specification
DefaultExtensions == << <<"a", "#">>, <<"#", "a">>, <<"b">> >>

-----------------------------------------------------------------------------
(* The call record *)

Ev(op, arg) == [op |-> op, arg |-> arg]

\* the calls made TO the facade; everything else in trace is a call it makes
ApiOps == {"App", "Init", "~App", "LoadExtensions", "RunExtensionCommand",
           "SetCanLoadExtensions", "AddEventSink", "RemoveEventSink", "OnNewDocument",
           "ClearUserData", "OpenDocument", "NewDocument", "InputBox", "ReleaseString"}

IsCall(e) == e.op \in ApiOps

NumCalls == Len(SelectSeq(trace, IsCall))

\* fewer than n calls have been made to the facade
Within(n) == NumCalls < n

\* the UNEXPECTED(message) macro: reports the unexpected condition
UNEXPECTED(message) == << Ev("UNEXPECTED", message) >>

\* the LOG(message) macro
LOG(message) == << Ev("LOG", message) >>

SeqMap(F(_), s) == [i \in 1..Len(s) |-> F(s[i])]

-----------------------------------------------------------------------------
(* Construction, Init and shutdown *)

\* What CreateDirectoryRecursive can return: it succeeds on a directory that
\* is there already (exists), and may fail to create one that is missing.
CreateDirectoryRecursive(exists) == IF exists THEN {TRUE} ELSE BOOLEAN

\* App::ensureUserSettingsDir, called when the directory's existence is exists;
\* created is what CreateDirectoryRecursive returns
ensureUserSettingsDir(exists, created) ==
    [ calls |-> << Ev("CreateDirectoryRecursive", created) >>
                \o (IF ~created
                      THEN UNEXPECTED("Could not create user settings folder")
                      ELSE << >>),
      dir   |-> (exists \/ created) ]

\* faulty variant: the cached options are loaded before the options object is made
App_CacheBeforeOptions ==
    /\ phase = "none"
    /\ \E created \in CreateDirectoryRecursive(dirExists) :
         LET e == ensureUserSettingsDir(dirExists, created) IN
           /\ trace' = trace \o << Ev("App", ""),
                                   Ev("InitResourceLoader", ""),
                                   Ev("new AppSettings", ""),
                                   Ev("LoadCache", ""),
                                   Ev("MakeOptions", "") >>
                             \o e.calls
           /\ dirExists' = e.dir
    /\ phase' = "constructed"
    /\ m_dispatch' = "NULL"
    /\ m_bCanLoadExtensions' = TRUE
    /\ m_settings' = "alive"
    /\ options' = "alive"
    /\ m_sinks' = << >>
    /\ m_exts' = << >>
    /\ UNCHANGED <<extensions, pending, dirFiles, uiSettings, current, heap>>

\* App::App()
App ==
    /\ phase = "none"
    /\ \E created \in CreateDirectoryRecursive(dirExists) :
         LET e == ensureUserSettingsDir(dirExists, created) IN
           /\ trace' = trace \o << Ev("App", ""),
                                   Ev("InitResourceLoader", ""),
                                   Ev("new AppSettings", ""),
                                   Ev("MakeOptions", "") >>
                             \o e.calls
                             \o << Ev("LoadCache", "") >>
           /\ dirExists' = e.dir
    /\ phase' = "constructed"
    /\ m_dispatch' = "NULL"
    /\ m_bCanLoadExtensions' = TRUE
    /\ m_settings' = "alive"
    /\ options' = "alive"
    /\ m_sinks' = << >>
    /\ m_exts' = << >>
    /\ UNCHANGED <<extensions, pending, dirFiles, uiSettings, current, heap>>

\* faulty variant: Init loads the extensions itself (the call commented out at line 88)
Init_LoadsExtensions ==
    /\ phase = "constructed"
    /\ trace' = trace \o << Ev("Init", ""),
                            Ev("SchemeManager::SetPath", ""),
                            Ev("SchemeManager::SetCompiledPath", ""),
                            Ev("SchemeManager::Load", ""),
                            Ev("new CommandDispatch", "keymap.dat") >>
                      \o [i \in 1..Len(extensions) |->
                            Ev("new Extension", [id |-> i, path |-> extensions[i], valid |-> TRUE])]
    /\ m_dispatch' = "alive"
    /\ m_exts' = m_exts \o [i \in 1..Len(extensions) |-> [id |-> i, path |-> extensions[i]]]
    /\ UNCHANGED <<phase, extensions, pending, dirExists, dirFiles, uiSettings, current, heap, m_bCanLoadExtensions,
                   m_settings, options, m_sinks>>

\* App::Init()
Init ==
    /\ phase = "constructed"
    /\ trace' = trace \o << Ev("Init", ""),
                            Ev("SchemeManager::SetPath", ""),
                            Ev("SchemeManager::SetCompiledPath", ""),
                            Ev("SchemeManager::Load", ""),
                            Ev("new CommandDispatch", "keymap.dat") >>
    /\ m_dispatch' = "alive"
    /\ UNCHANGED <<phase, extensions, pending, dirExists, dirFiles, uiSettings, current, heap, m_bCanLoadExtensions,
                   m_settings, options, m_sinks, m_exts>>

OnAppCloseCall(sink) == Ev("OnAppClose", sink)
UnloadCall(ext)      == Ev("Unload", ext.id)

\* faulty variant: the extensions are unloaded last-loaded first
unloadExtensions_Reverse ==
    [ calls |-> SeqMap(OnAppCloseCall, m_sinks)
                \o [i \in 1..Len(m_exts) |-> UnloadCall(m_exts[Len(m_exts) + 1 - i])],
      exts  |-> << >> ]

\* App::unloadExtensions(): the calls it makes and the m_exts it leaves
unloadExtensions ==
    [ calls |-> SeqMap(OnAppCloseCall, m_sinks) \o SeqMap(UnloadCall, m_exts),
      exts  |-> << >> ]

\* faulty variant: the settings object is deleted before the extensions are unloaded
deinit_SettingsFirst ==
    /\ phase = "constructed"
    /\ LET u == unloadExtensions IN
         /\ trace' = trace \o << Ev("~App", "") >>
                           \o << Ev("delete m_settings", m_settings) >>
                           \o u.calls
                           \o << Ev("DeletionManager::DeleteAll", ""),
                                 Ev("OptionsFactory::Release", options),
                                 Ev("delete m_dispatch", m_dispatch) >>
         /\ m_exts' = u.exts
    /\ m_settings' = "deleted"
    /\ options' = "NULL"
    /\ m_dispatch' = IF m_dispatch = "NULL" THEN "NULL" ELSE "deleted"
    /\ phase' = "destroyed"
    /\ UNCHANGED <<extensions, pending, dirExists, dirFiles, uiSettings, current, heap, m_bCanLoadExtensions, m_sinks>>

\* App::~App() and the App::deinit() it calls
deinit ==
    /\ phase = "constructed"
    /\ LET u == unloadExtensions IN
         /\ trace' = trace \o << Ev("~App", "") >>
                           \o u.calls
                           \o << Ev("delete m_settings", m_settings),
                                 Ev("DeletionManager::DeleteAll", ""),
                                 Ev("OptionsFactory::Release", options),
                                 Ev("delete m_dispatch", m_dispatch) >>
         /\ m_exts' = u.exts
    /\ m_settings' = "deleted"
    /\ options' = "NULL"
    /\ m_dispatch' = IF m_dispatch = "NULL" THEN "NULL" ELSE "deleted"
    /\ phase' = "destroyed"
    /\ UNCHANGED <<extensions, pending, dirExists, dirFiles, uiSettings, current, heap, m_bCanLoadExtensions, m_sinks>>

-----------------------------------------------------------------------------
(* Event sinks *)

\* std::list::remove(value): erases every element that compares equal to value
ListRemove(list, value) == SelectSeq(list, LAMBDA e : e # value)

\* App::AddEventSink
AddEventSink(sink) ==
    /\ phase = "constructed"
    /\ m_sinks' = Append(m_sinks, sink)
    /\ trace' = Append(trace, Ev("AddEventSink", sink))
    /\ UNCHANGED <<phase, extensions, pending, dirExists, dirFiles, uiSettings, current, heap, m_bCanLoadExtensions,
                   m_settings, options, m_dispatch, m_exts>>

\* the index of the first element of list equal to value, 0 when there is none
FirstIndex(list, value) ==
    IF \E i \in 1..Len(list) : list[i] = value
      THEN CHOOSE i \in 1..Len(list) :
             /\ list[i] = value
             /\ \A j \in 1..(i - 1) : list[j] # value
      ELSE 0

\* faulty variant: only the first matching entry is erased
RemoveEventSink_FirstOnly(sink) ==
    /\ phase = "constructed"
    /\ LET k == FirstIndex(m_sinks, sink) IN
         m_sinks' = IF k = 0 THEN m_sinks
                    ELSE SubSeq(m_sinks, 1, k - 1) \o SubSeq(m_sinks, k + 1, Len(m_sinks))
    /\ trace' = Append(trace, Ev("RemoveEventSink", sink))
    /\ UNCHANGED <<phase, extensions, pending, dirExists, dirFiles, uiSettings, current, heap, m_bCanLoadExtensions,
                   m_settings, options, m_dispatch, m_exts>>

\* faulty variant: the entry at the front is erased, whatever it is
RemoveEventSink_PopFront(sink) ==
    /\ phase = "constructed"
    /\ m_sinks' = IF m_sinks = << >> THEN m_sinks ELSE Tail(m_sinks)
    /\ trace' = Append(trace, Ev("RemoveEventSink", sink))
    /\ UNCHANGED <<phase, extensions, pending, dirExists, dirFiles, uiSettings, current, heap, m_bCanLoadExtensions,
                   m_settings, options, m_dispatch, m_exts>>

\* App::RemoveEventSink
RemoveEventSink(sink) ==
    /\ phase = "constructed"
    /\ m_sinks' = ListRemove(m_sinks, sink)
    /\ trace' = Append(trace, Ev("RemoveEventSink", sink))
    /\ UNCHANGED <<phase, extensions, pending, dirExists, dirFiles, uiSettings, current, heap, m_bCanLoadExtensions,
                   m_settings, options, m_dispatch, m_exts>>

\* faulty variant: the sinks are notified last-registered first
OnNewDocument_Reverse(doc) ==
    /\ phase = "constructed"
    /\ trace' = trace \o << Ev("OnNewDocument", doc) >>
                      \o [i \in 1..Len(m_sinks) |->
                            Ev("sink.OnNewDocument", <<m_sinks[Len(m_sinks) + 1 - i], doc>>)]
    /\ UNCHANGED <<phase, extensions, pending, dirExists, dirFiles, uiSettings, current, heap,
                   m_bCanLoadExtensions, m_settings, options, m_dispatch, m_sinks, m_exts>>

\* App::OnNewDocument
OnNewDocument(doc) ==
    /\ phase = "constructed"
    /\ trace' = trace \o << Ev("OnNewDocument", doc) >>
                      \o SeqMap(LAMBDA s : Ev("sink.OnNewDocument", <<s, doc>>), m_sinks)
    /\ UNCHANGED <<phase, extensions, pending, dirExists, dirFiles, uiSettings, current, heap, m_bCanLoadExtensions,
                   m_settings, options, m_dispatch, m_sinks, m_exts>>

-----------------------------------------------------------------------------
(* Extensions *)

\* path[0]: the first character, or the terminating NUL of an empty string
FirstChar(path) == IF Len(path) > 0 THEN path[1] ELSE "NUL"

\* faulty variant: only '#' disables an entry
IsEnabled_HashOnly(path) == FirstChar(path) # "#"

\* the test of line 147: the entry is not marked disabled
IsEnabled(path) == FirstChar(path) # "#" /\ FirstChar(path) # "!"

\* the message of lines 156-157
FailedMsg(path) == << "Failed to load extension: " >> \o path

\* faulty variant: an extension that is not valid is kept as well
LoadOne_KeepInvalid(path, valid, st) ==
    IF IsEnabled(path)
      THEN LET ext == [id |-> st.next, path |-> path] IN
           [ exts  |-> Append(st.exts, ext),
             calls |-> st.calls
                       \o << Ev("new Extension", [id |-> ext.id, path |-> path, valid |-> valid]) >>
                       \o (IF valid THEN << >> ELSE LOG(FailedMsg(path))),
             next  |-> st.next + 1 ]
      ELSE st

\* The body of the loop of App::LoadExtensions for one entry.  valid is what
\* Valid() returns for the Extension constructed from path; st holds m_exts,
\* the calls made so far and the identity of the next object constructed.
LoadOne(path, valid, st) ==
    IF IsEnabled(path)
      THEN LET ext == [id |-> st.next, path |-> path] IN
           [ exts  |-> IF valid THEN Append(st.exts, ext) ELSE st.exts,
             calls |-> st.calls
                       \o << Ev("new Extension", [id |-> ext.id, path |-> path, valid |-> valid]) >>
                       \o (IF valid THEN << >> ELSE LOG(FailedMsg(path))),
             next  |-> st.next + 1 ]
      ELSE st

\* faulty variant: the loop stops at the first extension that fails to load
RECURSIVE LoadLoop_StopAtInvalid(_, _, _)
LoadLoop_StopAtInvalid(i, valid, st) ==
    IF i > Len(extensions) THEN st
    ELSE IF IsEnabled(extensions[i]) /\ ~valid[i]
           THEN LoadOne(extensions[i], valid[i], st)
           ELSE LoadLoop_StopAtInvalid(i + 1, valid, LoadOne(extensions[i], valid[i], st))

\* the loop of App::LoadExtensions from entry i on
RECURSIVE LoadLoop(_, _, _)
LoadLoop(i, valid, st) ==
    IF i > Len(extensions) THEN st
    ELSE LoadLoop(i + 1, valid, LoadOne(extensions[i], valid[i], st))

\* the identity of the next Extension object: one more than those constructed so far
NextExtId == Len(SelectSeq(trace, LAMBDA e : e.op = "new Extension")) + 1

\* faulty variant: the safe-mode flag is not consulted
LoadExtensions_NoGate ==
    /\ phase = "constructed"
    /\ \E valid \in [1..Len(extensions) -> BOOLEAN] :
         LET r == LoadLoop(1, valid,
                           [exts |-> m_exts,
                            calls |-> << Ev("LoadExtensions", ""),
                                         Ev("GetExtensions", "") >>,
                            next |-> NextExtId])
         IN /\ m_exts' = r.exts
            /\ trace' = trace \o r.calls
    /\ UNCHANGED <<phase, extensions, pending, dirExists, dirFiles, uiSettings, current, heap, m_bCanLoadExtensions,
                   m_settings, options, m_dispatch, m_sinks>>

\* App::LoadExtensions.  valid[i] is what Valid() returns for the Extension
\* constructed from entry i, should one be constructed.
LoadExtensions ==
    /\ phase = "constructed"
    /\ IF ~m_bCanLoadExtensions
         THEN /\ trace' = Append(trace, Ev("LoadExtensions", ""))
              /\ m_exts' = m_exts
         ELSE \E valid \in [1..Len(extensions) -> BOOLEAN] :
                LET r == LoadLoop(1, valid,
                                  [exts |-> m_exts,
                                   calls |-> << Ev("LoadExtensions", ""),
                                                Ev("GetExtensions", "") >>,
                                   next |-> NextExtId])
                IN /\ m_exts' = r.exts
                   /\ trace' = trace \o r.calls
    /\ UNCHANGED <<phase, extensions, pending, dirExists, dirFiles, uiSettings, current, heap, m_bCanLoadExtensions,
                   m_settings, options, m_dispatch, m_sinks>>

\* App::SetCanLoadExtensions
SetCanLoadExtensions(canLoad) ==
    /\ phase = "constructed"
    /\ m_bCanLoadExtensions' = canLoad
    /\ trace' = Append(trace, Ev("SetCanLoadExtensions", canLoad))
    /\ UNCHANGED <<phase, extensions, pending, dirExists, dirFiles, uiSettings, current, heap, m_settings, options,
                   m_dispatch, m_sinks, m_exts>>

-----------------------------------------------------------------------------
(* Extension commands *)

\* std::string::npos, which the code compares with -1 converted to size_t
npos == -1

\* str.find(ch): the 0-based index of the first ch in str, npos when there is none
Find(str, ch) ==
    IF \E i \in 1..Len(str) : str[i] = ch
      THEN (CHOOSE i \in 1..Len(str) :
              /\ str[i] = ch
              /\ \A j \in 1..(i - 1) : str[j] # ch) - 1
      ELSE npos

\* str.substr(0, n)
Substr0(str, n) == SubSeq(str, 1, n)

\* the reserved runner id of line 182
ext == << "e", "x", "t" >>

\* faulty variant: a string without ':' is not returned on, its whole text is the runner id
RunExtensionCommand_NoReturn(command) ==
    /\ phase = "constructed"
    /\ LET str       == command
           rindex    == Find(str, ":")
           runner_id == IF rindex = npos THEN str ELSE Substr0(str, rindex)
       IN trace' = trace \o << Ev("RunExtensionCommand", command) >>
                         \o (IF runner_id = ext
                               THEN UNEXPECTED("Not Yet Implemented")
                               ELSE << Ev("Script", command), Ev("Script.Run", command) >>)
    /\ UNCHANGED <<phase, extensions, pending, dirExists, dirFiles, uiSettings, current, heap, m_bCanLoadExtensions,
                   m_settings, options, m_dispatch, m_sinks, m_exts>>

\* faulty variant: the reserved id falls through to the script backend
RunExtensionCommand_FallThrough(command) ==
    /\ phase = "constructed"
    /\ LET str       == command
           rindex    == Find(str, ":")
           runner_id == Substr0(str, rindex)
       IN trace' = trace \o << Ev("RunExtensionCommand", command) >>
                         \o (IF rindex = npos THEN << >>
                             ELSE (IF runner_id = ext
                                     THEN UNEXPECTED("Not Yet Implemented")
                                     ELSE << >>)
                                  \o << Ev("Script", command), Ev("Script.Run", command) >>)
    /\ UNCHANGED <<phase, extensions, pending, dirExists, dirFiles, uiSettings, current, heap, m_bCanLoadExtensions,
                   m_settings, options, m_dispatch, m_sinks, m_exts>>

\* faulty variant: the script is given the text after the ':' only
RunExtensionCommand_PayloadOnly(command) ==
    /\ phase = "constructed"
    /\ LET str       == command
           rindex    == Find(str, ":")
           runner_id == Substr0(str, rindex)
           payload   == SubSeq(str, rindex + 2, Len(str))
       IN trace' = trace \o << Ev("RunExtensionCommand", command) >>
                         \o (IF rindex = npos THEN << >>
                             ELSE IF runner_id = ext
                               THEN UNEXPECTED("Not Yet Implemented")
                               ELSE << Ev("Script", payload), Ev("Script.Run", payload) >>)
    /\ UNCHANGED <<phase, extensions, pending, dirExists, dirFiles, uiSettings, current, heap, m_bCanLoadExtensions,
                   m_settings, options, m_dispatch, m_sinks, m_exts>>

\* the lower-case form of a character
ToLower(c) ==
    CASE c = "E" -> "e"
      [] c = "X" -> "x"
      [] c = "T" -> "t"
      [] OTHER   -> c

\* faulty variant: the runner id is compared without regard to case
RunExtensionCommand_IgnoreCase(command) ==
    /\ phase = "constructed"
    /\ LET str       == command
           rindex    == Find(str, ":")
           runner_id == Substr0(str, rindex)
       IN trace' = trace \o << Ev("RunExtensionCommand", command) >>
                         \o (IF rindex = npos THEN << >>
                             ELSE IF SeqMap(ToLower, runner_id) = ext
                               THEN UNEXPECTED("Not Yet Implemented")
                               ELSE << Ev("Script", command), Ev("Script.Run", command) >>)
    /\ UNCHANGED <<phase, extensions, pending, dirExists, dirFiles, uiSettings, current, heap, m_bCanLoadExtensions,
                   m_settings, options, m_dispatch, m_sinks, m_exts>>

\* App::RunExtensionCommand.  Script s("", command) is the call "Script" and
\* s.Run() the call "Script.Run", each carrying the string the Script holds.
RunExtensionCommand(command) ==
    /\ phase = "constructed"
    /\ LET str       == command
           rindex    == Find(str, ":")
           runner_id == Substr0(str, rindex)
       IN trace' = trace \o << Ev("RunExtensionCommand", command) >>
                         \o (IF rindex = npos THEN << >>
                             ELSE IF runner_id = ext
                               THEN UNEXPECTED("Not Yet Implemented")
                               ELSE << Ev("Script", command), Ev("Script.Run", command) >>)
    /\ UNCHANGED <<phase, extensions, pending, dirExists, dirFiles, uiSettings, current, heap, m_bCanLoadExtensions,
                   m_settings, options, m_dispatch, m_sinks, m_exts>>

-----------------------------------------------------------------------------
(* User data *)

\* What DeleteDirectory(dir, true) can return.  When it returns true the
\* directory and everything in it is gone; when it returns false the
\* directory is as it was.
DeleteDirectory == BOOLEAN

\* faulty variant: the UI settings are cleared before the deletion is attempted
ClearUserData_ClearFirst ==
    /\ phase = "constructed"
    /\ \E deleted \in DeleteDirectory :
         IF ~deleted
           THEN /\ trace' = trace \o << Ev("ClearUserData", ""),
                                        Ev("OPTIONS->Clear", "PNSK_INTERFACE"),
                                        Ev("DeleteDirectory", FALSE) >>
                                  \o UNEXPECTED("Failed to delete user settings directory!")
                                  \o << Ev("return", FALSE) >>
                /\ uiSettings' = "cleared"
                /\ UNCHANGED <<dirExists, dirFiles>>
           ELSE \E created \in CreateDirectoryRecursive(FALSE) :
                  LET e == ensureUserSettingsDir(FALSE, created) IN
                    /\ trace' = trace \o << Ev("ClearUserData", ""),
                                            Ev("OPTIONS->Clear", "PNSK_INTERFACE"),
                                            Ev("DeleteDirectory", TRUE) >>
                                      \o e.calls
                                      \o << Ev("return", TRUE) >>
                    /\ uiSettings' = "cleared"
                    /\ dirExists' = e.dir
                    /\ dirFiles' = FALSE
    /\ UNCHANGED <<phase, extensions, pending, current, heap, m_bCanLoadExtensions,
                   m_settings, options, m_dispatch, m_sinks, m_exts>>

\* App::ClearUserData.  The call "return" carries the value returned.
ClearUserData ==
    /\ phase = "constructed"
    /\ \E deleted \in DeleteDirectory :
         IF ~deleted
           THEN /\ trace' = trace \o << Ev("ClearUserData", ""),
                                        Ev("DeleteDirectory", FALSE) >>
                                  \o UNEXPECTED("Failed to delete user settings directory!")
                                  \o << Ev("return", FALSE) >>
                /\ UNCHANGED <<dirExists, dirFiles, uiSettings>>
           ELSE \E created \in CreateDirectoryRecursive(FALSE) :
                  LET e == ensureUserSettingsDir(FALSE, created) IN
                    /\ trace' = trace \o << Ev("ClearUserData", ""),
                                            Ev("DeleteDirectory", TRUE),
                                            Ev("OPTIONS->Clear", "PNSK_INTERFACE") >>
                                      \o e.calls
                                      \o << Ev("return", TRUE) >>
                    /\ uiSettings' = "cleared"
                    /\ dirExists' = e.dir
                    /\ dirFiles' = FALSE
    /\ UNCHANGED <<phase, extensions, pending, current, heap, m_bCanLoadExtensions,
                   m_settings, options, m_dispatch, m_sinks, m_exts>>

-----------------------------------------------------------------------------
(* Documents *)

\* scheme names a caller can pass: none, one the scheme manager knows, one it does not
Schemes == {"NULL", "known", "unknown"}

\* SchemeManager::SchemeByName: the scheme found, NULL for an unknown name
SchemeByName(scheme) == IF scheme = "known" THEN "scheme" ELSE "NULL"

\* the documents of the editors NewEditor creates, in creation order
NewDocs == << "n1", "n2", "n3", "n4", "n5", "n6", "n7", "n8" >>

\* the document of the next editor NewEditor creates
NextNewDoc == NewDocs[Len(SelectSeq(trace, LAMBDA e : e.op = "NewEditor")) + 1]

\* App::GetCurrentDocument when the current editor's document is cur: that
\* document, or an empty handle ("NULL") when there is no current editor
GetCurrentDocument(cur) == cur

\* App::OpenDocument.  opened is what CMainFrame::OpenFile returns; a file
\* that was opened is the current editor's document afterwards.
OpenDocument(filepath, scheme) ==
    /\ phase = "constructed"
    /\ \E opened \in BOOLEAN :
         LET lookup == IF scheme # "NULL"
                         THEN << Ev("SchemeByName", scheme) >> ELSE << >>
             cur    == IF opened THEN filepath ELSE current
             doc    == IF opened THEN GetCurrentDocument(cur) ELSE "NULL"
         IN  /\ trace' = trace \o << Ev("OpenDocument", <<filepath, scheme>>) >>
                               \o lookup
                               \o << Ev("OpenFile", opened), Ev("return", doc) >>
             /\ current' = cur
    /\ UNCHANGED <<phase, extensions, pending, dirExists, dirFiles, uiSettings, heap,
                   m_bCanLoadExtensions, m_settings, options, m_dispatch, m_sinks, m_exts>>

\* App::NewDocument.  pEditor is what CMainFrame::NewEditor returns: the new
\* editor, which is then the current one, or NULL when none could be
\* created.  pEditor->SetScheme on a NULL pEditor is undefined: the call
\* either faults (the process is gone, nothing is returned) or goes on.
NewDocument(scheme) ==
    /\ phase = "constructed"
    /\ \E pEditor \in {"NULL", NextNewDoc} : \E faults \in BOOLEAN :
         LET pScheme   == IF scheme # "NULL" THEN SchemeByName(scheme) ELSE "NULL"
             lookup    == IF scheme # "NULL"
                            THEN << Ev("SchemeByName", scheme) >> ELSE << >>
             setScheme == IF scheme # "NULL" /\ pScheme # "NULL"
                            THEN << Ev("SetScheme", pEditor) >> ELSE << >>
             undefined == setScheme # << >> /\ pEditor = "NULL"
             cur       == IF pEditor = "NULL" THEN current ELSE pEditor
         IN  /\ faults => undefined
             /\ trace' = trace \o << Ev("NewDocument", scheme), Ev("NewEditor", pEditor) >>
                               \o lookup \o setScheme
                               \o (IF faults THEN << >>
                                   ELSE << Ev("return", GetCurrentDocument(cur)) >>)
             /\ current' = cur
             /\ phase' = IF faults THEN "crashed" ELSE phase
    /\ UNCHANGED <<extensions, pending, dirExists, dirFiles, uiSettings, heap,
                   m_bCanLoadExtensions, m_settings, options, m_dispatch, m_sinks, m_exts>>

-----------------------------------------------------------------------------
(* InputBox and ReleaseString *)

\* A C string is its characters followed by the terminator; the null
\* pointer is the empty tuple.
NUL == "NUL"

NullStr == << >>

\* what the user may have typed into the dialog
InputTexts == { << >>, <<"a">>, <<"a", "b">> }

\* what CInputDialog::DoModal may return
ModalResults == {"IDOK", "IDCANCEL"}

Titles == {"title"}

Captions == {"caption"}

\* the handles of the buffers of the heap, in allocation order
Handles == << "p1", "p2", "p3", "p4", "p5", "p6", "p7", "p8" >>

HandleIndex(h) == CHOOSE i \in 1..Len(Handles) : Handles[i] = h

\* CInputDialog::GetInput: nothing when the user entered nothing, else the
\* entered text as a C string
GetInput(entered) == IF entered = << >> THEN NullStr ELSE entered \o << NUL >>

\* the number of characters before the terminator
_tcslen(str) ==
    (CHOOSE i \in 1..Len(str) : str[i] = NUL /\ \A j \in 1..(i - 1) : str[j] # NUL) - 1

\* new char[n]: n characters of no defined value
NewChars(n) == [i \in 1..n |-> "?"]

\* strcpy: the characters of src up to and including the terminator
\* overwrite the beginning of dest
strcpy(dest, src) ==
    [i \in 1..Len(dest) |-> IF i <= _tcslen(src) + 1 THEN src[i] ELSE dest[i]]

\* faulty variant: the input is copied whatever DoModal returned
InputBox_CopyOnCancel(title, caption) ==
    /\ phase = "constructed"
    /\ \E modal \in ModalResults : \E entered \in InputTexts :
         LET input  == GetInput(entered)
             copies == input # NullStr
             result == IF copies THEN Handles[Len(heap) + 1] ELSE "NULL"
         IN  /\ trace' = trace \o << Ev("InputBox", <<title, caption>>),
                                     Ev("DoModal", [result |-> modal, entered |-> entered]) >>
                               \o (IF copies
                                     THEN << Ev("new char[]", _tcslen(input) + 1),
                                             Ev("strcpy", input) >>
                                     ELSE << >>)
                               \o << Ev("return", result) >>
             /\ heap' = IF copies
                          THEN Append(heap, [chars |-> strcpy(NewChars(_tcslen(input) + 1), input),
                                             live  |-> TRUE])
                          ELSE heap
    /\ UNCHANGED <<phase, extensions, pending, dirExists, dirFiles, uiSettings, current,
                   m_bCanLoadExtensions, m_settings, options, m_dispatch, m_sinks, m_exts>>

\* App::InputBox.  modal is what DoModal returns and entered what the user
\* typed; the buffer allocated for the copy is the next one of the heap.
InputBox(title, caption) ==
    /\ phase = "constructed"
    /\ \E modal \in ModalResults : \E entered \in InputTexts :
         LET input  == GetInput(entered)
             copies == modal = "IDOK" /\ input # NullStr
             result == IF copies THEN Handles[Len(heap) + 1] ELSE "NULL"
         IN  /\ trace' = trace \o << Ev("InputBox", <<title, caption>>),
                                     Ev("DoModal", [result |-> modal, entered |-> entered]) >>
                               \o (IF copies
                                     THEN << Ev("new char[]", _tcslen(input) + 1),
                                             Ev("strcpy", input) >>
                                     ELSE << >>)
                               \o << Ev("return", result) >>
             /\ heap' = IF copies
                          THEN Append(heap, [chars |-> strcpy(NewChars(_tcslen(input) + 1), input),
                                             live  |-> TRUE])
                          ELSE heap
    /\ UNCHANGED <<phase, extensions, pending, dirExists, dirFiles, uiSettings, current,
                   m_bCanLoadExtensions, m_settings, options, m_dispatch, m_sinks, m_exts>>

\* App::ReleaseString.  delete [] of a null pointer does nothing; of a live
\* buffer frees it; of a buffer already freed is undefined: the program
\* crashes or goes on.
ReleaseString(str) ==
    /\ phase = "constructed"
    /\ trace' = trace \o << Ev("ReleaseString", str), Ev("delete []", str) >>
    /\ IF str = "NULL"
         THEN heap' = heap /\ phase' = phase
         ELSE LET i == HandleIndex(str) IN
                IF heap[i].live
                  THEN heap' = [heap EXCEPT ![i].live = FALSE] /\ phase' = phase
                  ELSE heap' = heap /\ phase' \in {"constructed", "crashed"}
    /\ UNCHANGED <<extensions, pending, dirExists, dirFiles, uiSettings, current,
                   m_bCanLoadExtensions, m_settings, options, m_dispatch, m_sinks, m_exts>>

-----------------------------------------------------------------------------
(* Specifications *)

\* the state before the App object is constructed
Unconstructed ==
    /\ phase = "none"
    /\ m_bCanLoadExtensions = FALSE
    /\ m_settings = "NULL"
    /\ options = "NULL"
    /\ m_dispatch = "NULL"
    /\ m_sinks = << >>
    /\ m_exts = << >>
    /\ current = "NULL"
    /\ heap = << >>
    /\ trace = << >>

\* The lifecycle of the facade with its sinks and extensions, under one
\* configured extension list.
Initial ==
    /\ Unconstructed
    /\ dirExists \in BOOLEAN
    /\ dirFiles = FALSE
    /\ uiSettings = "set"
    /\ extensions = DefaultExtensions
    /\ pending = << >>

Next ==
    \/ Within(MaxOps) /\ App
    \/ Within(MaxOps) /\ Init
    \/ Within(MaxOps) /\ \E sink \in Sinks : AddEventSink(sink)
    \/ Within(MaxOps) /\ \E sink \in Sinks : RemoveEventSink(sink)
    \/ Within(MaxOps) /\ \E doc \in Docs : OnNewDocument(doc)
    \/ Within(MaxOps) /\ LoadExtensions
    \/ Within(MaxOps) /\ deinit

Spec == Initial /\ [][Next]_vars

\* Extension loading over every configured extension list.
InitialLoad ==
    /\ Unconstructed
    /\ dirExists = TRUE
    /\ dirFiles = FALSE
    /\ uiSettings = "set"
    /\ extensions \in PathLists
    /\ pending = << >>

NextLoad ==
    \/ Within(MaxLoadOps) /\ App
    \/ Within(MaxLoadOps) /\ \E canLoad \in BOOLEAN : SetCanLoadExtensions(canLoad)
    \/ Within(MaxLoadOps) /\ LoadExtensions
    \/ Within(MaxLoadOps) /\ deinit

SpecLoad == InitialLoad /\ [][NextLoad]_vars

\* Extension commands over every command string.
InitialRun ==
    /\ Unconstructed
    /\ dirExists = TRUE
    /\ dirFiles = FALSE
    /\ uiSettings = "set"
    /\ extensions = DefaultExtensions
    /\ pending \in Commands

NextRun ==
    \/ Within(MaxRunOps) /\ App
    \/ Within(MaxRunOps) /\ RunExtensionCommand(pending)

SpecRun == InitialRun /\ [][NextRun]_vars

\* Clearing the user data over every state of the directory and the UI settings.
InitialData ==
    /\ Unconstructed
    /\ dirExists \in BOOLEAN
    /\ dirFiles \in (IF dirExists THEN BOOLEAN ELSE {FALSE})
    /\ uiSettings \in {"set", "cleared"}
    /\ extensions = DefaultExtensions
    /\ pending = << >>

NextData ==
    \/ Within(MaxDataOps) /\ App
    \/ Within(MaxDataOps) /\ ClearUserData

SpecData == InitialData /\ [][NextData]_vars

\* Opening and creating documents.
InitialDocs ==
    /\ Unconstructed
    /\ dirExists = TRUE
    /\ dirFiles = FALSE
    /\ uiSettings = "set"
    /\ extensions = DefaultExtensions
    /\ pending = << >>

NextDocs ==
    \/ Within(MaxDocOps) /\ App
    \/ Within(MaxDocOps) /\ \E filepath \in Docs : \E scheme \in Schemes :
                               OpenDocument(filepath, scheme)
    \/ Within(MaxDocOps) /\ \E scheme \in Schemes : NewDocument(scheme)

SpecDocs == InitialDocs /\ [][NextDocs]_vars

\* The input box and the strings it hands out.
InitialInput ==
    /\ Unconstructed
    /\ dirExists = TRUE
    /\ dirFiles = FALSE
    /\ uiSettings = "set"
    /\ extensions = DefaultExtensions
    /\ pending = << >>

NextInput ==
    \/ Within(MaxInputOps) /\ App
    \/ Within(MaxInputOps) /\ \E title \in Titles : \E caption \in Captions :
                                 InputBox(title, caption)
    \/ Within(MaxInputOps) /\ \E str \in {"NULL"} \cup { Handles[i] : i \in 1..Len(heap) } :
                                 ReleaseString(str)

SpecInput == InitialInput /\ [][NextInput]_vars

\* Extension commands over the runner ids that resemble the reserved one.
InitialRunIds ==
    /\ Unconstructed
    /\ dirExists = TRUE
    /\ dirFiles = FALSE
    /\ uiSettings = "set"
    /\ extensions = DefaultExtensions
    /\ pending \in IdCommands

NextRunIds ==
    \/ Within(MaxRunOps) /\ App
    \/ Within(MaxRunOps) /\ RunExtensionCommand(pending)

SpecRunIds == InitialRunIds /\ [][NextRunIds]_vars

-----------------------------------------------------------------------------
(* Vocabulary of the properties *)

Range(s) == { s[i] : i \in 1..Len(s) }

Count(s, v) == Cardinality({ i \in 1..Len(s) : s[i] = v })

\* the positions of trace that hold a call named op
Idx(op) == { i \in 1..Len(trace) : trace[i].op = op }

\* position i of trace holds the call op(arg)
IsEv(i, op, arg) ==
    /\ i \in 1..Len(trace)
    /\ trace[i].op = op
    /\ trace[i].arg = arg

\* position k of trace holds a notification delivered to sink S
Notifies(k, S) ==
    \/ trace[k].op = "OnAppClose" /\ trace[k].arg = S
    \/ trace[k].op = "sink.OnNewDocument" /\ trace[k].arg[1] = S

\* the position of the last call made to the facade, 0 before the first
LastCall ==
    IF \E i \in 1..Len(trace) : IsCall(trace[i])
      THEN CHOOSE i \in 1..Len(trace) :
             IsCall(trace[i]) /\ \A j \in (i + 1)..Len(trace) : ~IsCall(trace[j])
      ELSE 0

\* the calls the facade made while serving the last call made to it
LastCalls == SubSeq(trace, LastCall + 1, Len(trace))

\* this step is a call op to the facade
StepIs(op) ==
    /\ Len(trace') > Len(trace)
    /\ trace'[Len(trace) + 1].op = op

\* the calls the facade makes in this step
StepCalls == SubSeq(trace', Len(trace) + 2, Len(trace'))

-----------------------------------------------------------------------------
(* C1 *)

\* positions i, i+1, i+2 of trace are AddEventSink(S), AddEventSink(S), RemoveEventSink(S)
TwoAddsOneRemove(S, i) ==
    /\ IsEv(i, "AddEventSink", S)
    /\ IsEv(i + 1, "AddEventSink", S)
    /\ IsEv(i + 2, "RemoveEventSink", S)

\* C1 as stated: two AddEventSink(S) calls followed by one RemoveEventSink(S)
\* leave S registered exactly once.
C1_RegisteredOnce ==
    \A S \in Sinks : \A i \in 1..Len(trace) :
        (TwoAddsOneRemove(S, i) /\ i + 2 = Len(trace)) => Count(m_sinks, S) = 1

\* C1 as amended: two AddEventSink(S) calls followed by one RemoveEventSink(S)
\* leave S not registered at all, whatever the registry held before, because
\* RemoveEventSink erases every entry equal to S; a later close notification
\* reaches S only if S was added again in between.
C1_RemoveErasesEveryEntry ==
    \A S \in Sinks : \A i \in 1..Len(trace) :
        TwoAddsOneRemove(S, i) =>
            /\ (i + 2 = Len(trace) => Count(m_sinks, S) = 0)
            /\ \A k \in (i + 3)..Len(trace) :
                 (trace[k].op = "OnAppClose" /\ trace[k].arg = S)
                    => \E j \in (i + 3)..(k - 1) : IsEv(j, "AddEventSink", S)

\* S was added twice and removed once, the facade has shut down since, and
\* the close notification did not reach S
C1_Witness ==
    \E S \in Sinks : \E i \in 1..Len(trace) :
        /\ TwoAddsOneRemove(S, i)
        /\ phase = "destroyed"
        /\ Idx("~App") # {}
        /\ \A k \in Idx("OnAppClose") : trace[k].arg # S

-----------------------------------------------------------------------------
(* C2 *)

\* C2: once RemoveEventSink(S) has been called, no close notification and no
\* new-document notification is delivered to S unless S is added again (so
\* none after AddEventSink(S), RemoveEventSink(S) with S not otherwise
\* registered); and RemoveEventSink(S) on a registry that does not hold S
\* leaves the registry as it was, contents and order.
C2_RemovedSinkIsNotNotified ==
    /\ [](\A S \in Sinks : \A i \in 1..Len(trace) :
            IsEv(i, "RemoveEventSink", S) =>
                \A k \in (i + 1)..Len(trace) :
                    Notifies(k, S) => \E j \in (i + 1)..(k - 1) : IsEv(j, "AddEventSink", S))
    /\ [][\A S \in Sinks :
            (StepIs("RemoveEventSink") /\ trace'[Len(trace) + 1].arg = S
                                       /\ S \notin Range(m_sinks))
                => m_sinks' = m_sinks]_vars

\* S was added once, next to a registered sink T, and removed; the
\* new-document notification that followed reached T and not S
C2_Witness ==
    \E S \in Sinks : \E T \in Sinks \ {S} : \E i \in 1..Len(trace) :
        /\ IsEv(i, "AddEventSink", T)
        /\ IsEv(i + 1, "AddEventSink", S)
        /\ IsEv(i + 2, "RemoveEventSink", S)
        /\ Idx("AddEventSink") = {i, i + 1}
        /\ \E k \in (i + 3)..Len(trace) : Notifies(k, T)
        /\ \A k \in 1..Len(trace) : ~Notifies(k, S)
        /\ m_sinks = << T >>

-----------------------------------------------------------------------------
(* C3 *)

\* the arguments of the calls named op, in the order they were made
ArgsOf(op) == LET calls == SelectSeq(trace, LAMBDA e : e.op = op)
              IN  [i \in 1..Len(calls) |-> calls[i].arg]

\* the identities of the extensions that loaded as valid, in load order
LoadedIds ==
    LET calls == SelectSeq(trace, LAMBDA e : e.op = "new Extension" /\ e.arg.valid)
    IN  [i \in 1..Len(calls) |-> calls[i].arg.id]

\* C3: once the facade is shut down, the calls of the shutdown are in this
\* order: OnAppClose of every registered sink, then Unload of every owned
\* extension, then the settings object is deleted, then the deletion-manager
\* sweep, then the options object is released (and the global pointer is
\* NULL), and last the command dispatcher is deleted.
C3_ShutdownOrder ==
    phase = "destroyed" =>
        \E d \in Idx("~App") : \E s \in Idx("delete m_settings") :
        \E m \in Idx("DeletionManager::DeleteAll") :
        \E o \in Idx("OptionsFactory::Release") : \E c \in Idx("delete m_dispatch") :
            /\ Idx("~App") = {d} /\ Idx("delete m_settings") = {s}
            /\ Idx("DeletionManager::DeleteAll") = {m}
            /\ Idx("OptionsFactory::Release") = {o} /\ Idx("delete m_dispatch") = {c}
            /\ ArgsOf("OnAppClose") = m_sinks
            /\ Cardinality(Idx("Unload")) = Len(LoadedIds)
            /\ \A a \in Idx("OnAppClose") : d < a /\ \A u \in Idx("Unload") : a < u
            /\ \A u \in Idx("Unload") : d < u /\ u < s
            /\ \A a \in Idx("OnAppClose") : a < s
            /\ s = d + Len(m_sinks) + Len(LoadedIds) + 1
            /\ m = s + 1 /\ o = m + 1 /\ c = o + 1
            /\ c = Len(trace)
            /\ trace[s].arg = "alive" /\ trace[o].arg = "alive"
            /\ options = "NULL"

\* a shutdown with a sink registered, an extension owned and a dispatcher created
C3_Witness ==
    /\ phase = "destroyed"
    /\ Idx("OnAppClose") # {}
    /\ Idx("Unload") # {}
    /\ m_dispatch = "deleted"
    /\ \E c \in Idx("delete m_dispatch") : trace[c].arg = "alive"

-----------------------------------------------------------------------------
(* C4 *)

\* the entry starts with one of the markers '#' and '!'
Marked(path) == Len(path) > 0 /\ path[1] \in {"#", "!"}

\* C4: no Extension is ever constructed from an entry that starts with '#'
\* or '!', no log entry is written for one, and no owned extension comes
\* from one; every call of LoadExtensions that reads the list constructs
\* exactly one Extension per unmarked entry.
C4_MarkedEntriesSkipped ==
    /\ \A i \in Idx("new Extension") : ~Marked(trace[i].arg.path)
    /\ \A i \in Idx("LOG") : ~Marked(Tail(trace[i].arg))
    /\ \A i \in 1..Len(m_exts) : ~Marked(m_exts[i].path)
    /\ Cardinality(Idx("new Extension"))
         = Cardinality(Idx("GetExtensions")) * Len(SelectSeq(extensions, LAMBDA p : ~Marked(p)))

\* LoadExtensions has run over a list that holds "#a", "!" and an unmarked
\* entry, and constructed an Extension for the unmarked entry alone
C4_Witness ==
    /\ Idx("GetExtensions") # {}
    /\ <<"#", "a">> \in Range(extensions)
    /\ <<"!">> \in Range(extensions)
    /\ Cardinality(Idx("new Extension")) = 1

-----------------------------------------------------------------------------
(* C5 *)

\* the sequence s without its element at position k
Without(s, k) == SubSeq(s, 1, k - 1) \o SubSeq(s, k + 1, Len(s))

\* the unmarked entries of the configured list, in list order
Unmarked == SelectSeq(extensions, LAMBDA p : ~Marked(p))

\* C5: when a call of LoadExtensions finds exactly one of the unmarked
\* entries invalid, whatever its position, an Extension was constructed for
\* every unmarked entry in list order, the owned set has grown by the other
\* N entries in list order, and exactly one log entry was written (for the
\* invalid entry).
C5_OneInvalidAmongValid ==
    [][ StepIs("LoadExtensions") =>
          LET made == SelectSeq(StepCalls, LAMBDA e : e.op = "new Extension")
              logs == SelectSeq(StepCalls, LAMBDA e : e.op = "LOG")
              bad  == { k \in 1..Len(made) : ~made[k].arg.valid }
              N    == Len(Unmarked) - 1
          IN  Cardinality(bad) = 1 =>
                LET k == CHOOSE k \in bad : TRUE IN
                /\ [i \in 1..Len(made) |-> made[i].arg.path] = Unmarked
                /\ Len(m_exts') = Len(m_exts) + N
                /\ SubSeq(m_exts', 1, Len(m_exts)) = m_exts
                /\ [i \in 1..N |-> m_exts'[Len(m_exts) + i].path] = Without(Unmarked, k)
                /\ [i \in 1..N |-> m_exts'[Len(m_exts) + i].id]
                     = Without([i \in 1..Len(made) |-> made[i].arg.id], k)
                /\ Len(logs) = 1
                /\ logs[1].arg = << "Failed to load extension: " >> \o Unmarked[k]
      ]_vars

\* the last call, LoadExtensions, found the first of three unmarked entries
\* invalid and loaded the two after it
C5_Witness ==
    /\ LastCall > 0
    /\ trace[LastCall].op = "LoadExtensions"
    /\ LET made == SelectSeq(LastCalls, LAMBDA e : e.op = "new Extension")
       IN  /\ Len(made) = 3
           /\ ~made[1].arg.valid /\ made[2].arg.valid /\ made[3].arg.valid
    /\ Len(m_exts) = 2
    /\ Len(SelectSeq(LastCalls, LAMBDA e : e.op = "LOG")) = 1

-----------------------------------------------------------------------------
(* C6 *)

\* C6: a call of LoadExtensions made while the extensions-permitted flag is
\* false makes no call at all (the extension list is not read, no Extension
\* is constructed, nothing is logged) and changes no state of the facade;
\* the flag is false only after SetCanLoadExtensions(false).
C6_SafeModeLoadIsNoOp ==
    /\ [][ (StepIs("LoadExtensions") /\ ~m_bCanLoadExtensions) =>
             /\ StepCalls = << >>
             /\ Len(trace') = Len(trace) + 1
             /\ UNCHANGED <<phase, extensions, pending, dirExists, dirFiles, uiSettings, current, heap, m_bCanLoadExtensions,
                            m_settings, options, m_dispatch, m_sinks, m_exts>> ]_vars
    /\ []((phase = "constructed" /\ ~m_bCanLoadExtensions) =>
             \E i \in Idx("SetCanLoadExtensions") :
                 /\ trace[i].arg = FALSE
                 /\ \A j \in Idx("SetCanLoadExtensions") : j <= i)

\* SetCanLoadExtensions(false), then LoadExtensions over a list with unmarked entries
C6_Witness ==
    /\ LastCall > 1
    /\ trace[LastCall].op = "LoadExtensions"
    /\ IsEv(LastCall - 1, "SetCanLoadExtensions", FALSE)
    /\ Len(Unmarked) >= 2
    /\ LastCalls = << >>

-----------------------------------------------------------------------------
(* C7, C8, C9 *)

\* the text of command before its first ':' (all of it when it has none)
BeforeColon(command) ==
    IF \E i \in 1..Len(command) : command[i] = ":"
      THEN SubSeq(command, 1,
                  (CHOOSE i \in 1..Len(command) :
                     command[i] = ":" /\ \A j \in 1..(i - 1) : command[j] # ":") - 1)
      ELSE command

HasColon(command) == ":" \in Range(command)

\* C7: a call of RunExtensionCommand with a string that holds no ':' makes
\* no call at all (no Script is created or run, UNEXPECTED is not raised)
\* and changes no state of the facade.
C7_NoColonIsNoOp ==
    [][ (StepIs("RunExtensionCommand") /\ ~HasColon(trace'[Len(trace) + 1].arg)) =>
          /\ StepCalls = << >>
          /\ Len(trace') = Len(trace) + 1
          /\ UNCHANGED <<phase, extensions, pending, dirExists, dirFiles, uiSettings, current, heap, m_bCanLoadExtensions,
                         m_settings, options, m_dispatch, m_sinks, m_exts>> ]_vars

\* RunExtensionCommand("ext") has been called: the reserved word without a ':'
C7_Witness ==
    /\ LastCall > 0
    /\ IsEv(LastCall, "RunExtensionCommand", << "e", "x", "t" >>)
    /\ LastCalls = << >>

\* C8: every call of RunExtensionCommand with a string whose text before the
\* first ':' is "ext" raises UNEXPECTED and makes no other call: no Script
\* is created or run.
C8_ReservedIdIsUnexpected ==
    \A i \in Idx("RunExtensionCommand") :
        (HasColon(trace[i].arg) /\ BeforeColon(trace[i].arg) = << "e", "x", "t" >>) =>
            /\ i + 1 <= Len(trace)
            /\ trace[i + 1].op = "UNEXPECTED"
            /\ trace[i + 1].arg = "Not Yet Implemented"
            /\ i + 2 <= Len(trace) => IsCall(trace[i + 2])

\* RunExtensionCommand("ext:x:") has been called: a payload with a further ':'
C8_Witness ==
    /\ LastCall > 0
    /\ IsEv(LastCall, "RunExtensionCommand", << "e", "x", "t", ":", "x", ":" >>)
    /\ Len(LastCalls) = 1

\* C9: every call of RunExtensionCommand with a string that holds a ':' and
\* whose text before the first ':' is not "ext" creates one Script holding
\* the whole string as it was passed, runs it once, and makes no other call.
C9_OtherIdRunsScript ==
    \A i \in Idx("RunExtensionCommand") :
        (HasColon(trace[i].arg) /\ BeforeColon(trace[i].arg) # << "e", "x", "t" >>) =>
            /\ i + 2 <= Len(trace)
            /\ trace[i + 1].op = "Script" /\ trace[i + 1].arg = trace[i].arg
            /\ trace[i + 2].op = "Script.Run" /\ trace[i + 2].arg = trace[i].arg
            /\ i + 3 <= Len(trace) => IsCall(trace[i + 3])

\* RunExtensionCommand("E:ext:") has been called: "ext" after the first ':'
C9_Witness ==
    /\ LastCall > 0
    /\ IsEv(LastCall, "RunExtensionCommand", << "E", ":", "e", "x", "t", ":" >>)
    /\ Len(LastCalls) = 2

-----------------------------------------------------------------------------
(* C10 *)

\* C10: once the facade is shut down, Unload has been called exactly once on
\* every extension that was owned, in the order in which they were loaded,
\* and the owned set is empty.
C10_UnloadInLoadOrder ==
    phase = "destroyed" =>
        /\ ArgsOf("Unload") = LoadedIds
        /\ \A i, j \in 1..Len(LoadedIds) : i # j => LoadedIds[i] # LoadedIds[j]
        /\ \A u \in Idx("Unload") : \A n \in Idx("new Extension") : n < u
        /\ m_exts = << >>

\* a shutdown that unloaded three extensions
C10_Witness ==
    /\ phase = "destroyed"
    /\ Cardinality(Idx("Unload")) = 3

-----------------------------------------------------------------------------
(* C11, C12 *)

\* the value the last call to the facade returned
Returned(v) ==
    /\ Len(trace) > LastCall
    /\ trace[Len(trace)].op = "return"
    /\ trace[Len(trace)].arg = v

\* C11: a call of ClearUserData whose DeleteDirectory fails returns false
\* after raising UNEXPECTED and does nothing else: OPTIONS->Clear is not
\* called and the UI settings are as they were, CreateDirectoryRecursive is
\* not called and the directory is as it was.
C11_FailedDeleteDoesNothingElse ==
    [][ (/\ StepIs("ClearUserData")
         /\ \E k \in 1..Len(StepCalls) :
              StepCalls[k].op = "DeleteDirectory" /\ StepCalls[k].arg = FALSE) =>
          /\ Len(StepCalls) = 3
          /\ StepCalls[1].op = "DeleteDirectory"
          /\ StepCalls[2].op = "UNEXPECTED"
          /\ StepCalls[3].op = "return" /\ StepCalls[3].arg = FALSE
          /\ UNCHANGED <<phase, extensions, pending, dirExists, dirFiles, uiSettings,
                         current, heap, m_bCanLoadExtensions, m_settings, options,
                         m_dispatch, m_sinks, m_exts>> ]_vars

\* ClearUserData has returned false on a directory with files and UI settings set
C11_Witness ==
    /\ LastCall > 0
    /\ trace[LastCall].op = "ClearUserData"
    /\ Returned(FALSE)
    /\ dirExists /\ dirFiles /\ uiSettings = "set"

\* C12 as stated: whenever ClearUserData has returned true, the user
\* settings directory exists and is empty and the UI settings are cleared.
C12_TrueMeansCleanDirectory ==
    (LastCall > 0 /\ trace[LastCall].op = "ClearUserData" /\ Returned(TRUE)) =>
        /\ dirExists
        /\ ~dirFiles
        /\ uiSettings = "cleared"

-----------------------------------------------------------------------------
(* C13 *)

\* C13 as stated: in every reachable state no load path is represented by
\* more than one owned extension.
C13_NoPathOwnedTwice ==
    \A i, j \in 1..Len(m_exts) : i # j => m_exts[i].path # m_exts[j].path

-----------------------------------------------------------------------------
(* C14 *)

\* the sinks of the AddEventSink calls that no later RemoveEventSink call
\* names, in the order of those calls: the registrations in force
Registrations ==
    LET pos  == [i \in 1..Len(trace) |-> i]
        kept == SelectSeq(pos, LAMBDA i :
                    /\ trace[i].op = "AddEventSink"
                    /\ \A j \in (i + 1)..Len(trace) :
                         ~(trace[j].op = "RemoveEventSink" /\ trace[j].arg = trace[i].arg))
    IN  [k \in 1..Len(kept) |-> trace[kept[k]].arg]

\* C14: the registry holds the registrations in force in registration
\* order; the close notification calls OnAppClose on exactly the sinks of
\* the registry, in its order, once per entry; OnNewDocument(doc) calls
\* OnNewDocument on exactly the sinks of the registry, in its order, each
\* with doc; and neither changes the registry.
C14_NotifyInRegistrationOrder ==
    /\ [](phase = "constructed" => m_sinks = Registrations)
    /\ [][ StepIs("~App") =>
             LET closes == SelectSeq(StepCalls, LAMBDA e : e.op = "OnAppClose")
             IN  /\ [i \in 1..Len(closes) |-> closes[i].arg] = m_sinks
                 /\ m_sinks' = m_sinks ]_vars
    /\ [][ StepIs("OnNewDocument") =>
             LET doc == trace'[Len(trace) + 1].arg
             IN  /\ Len(StepCalls) = Len(m_sinks)
                 /\ \A i \in 1..Len(m_sinks) :
                      /\ StepCalls[i].op = "sink.OnNewDocument"
                      /\ StepCalls[i].arg = <<m_sinks[i], doc>>
                 /\ m_sinks' = m_sinks ]_vars

\* a new-document notification delivered to s1, s2 and s1 again, in that order
C14_Witness ==
    /\ LastCall > 0
    /\ trace[LastCall].op = "OnNewDocument"
    /\ m_sinks = << "s1", "s2", "s1" >>
    /\ Len(LastCalls) = 3
    /\ LastCalls[1].arg[1] = "s1" /\ LastCalls[2].arg[1] = "s2" /\ LastCalls[3].arg[1] = "s1"

-----------------------------------------------------------------------------
(* C15 *)

\* the last call to the facade was an OpenDocument whose OpenFile failed or
\* a NewDocument whose NewEditor created no editor, and it has returned
OpenOrCreateFailed ==
    /\ LastCall > 0
    /\ trace[LastCall].op \in {"OpenDocument", "NewDocument"}
    /\ \E i \in 1..Len(LastCalls) :
         \/ LastCalls[i].op = "OpenFile" /\ LastCalls[i].arg = FALSE
         \/ LastCalls[i].op = "NewEditor" /\ LastCalls[i].arg = "NULL"
    /\ trace[Len(trace)].op = "return"

\* C15 as stated: OpenDocument and NewDocument return an empty document
\* handle whenever the underlying open or create operation fails.
C15_FailureReturnsEmptyHandle ==
    OpenOrCreateFailed => trace[Len(trace)].arg = "NULL"

-----------------------------------------------------------------------------
(* C16 *)

\* the identities of the Extension objects whose Valid() returned v
Constructed(v) ==
    { trace[i].arg.id : i \in { j \in Idx("new Extension") : trace[j].arg.valid = v } }

\* C16: every owned extension was constructed with Valid() true, no
\* extension constructed with Valid() false is owned, and Unload is only
\* ever called on extensions constructed with Valid() true.
C16_OnlyValidExtensionsOwned ==
    /\ \A i \in 1..Len(m_exts) :
         /\ m_exts[i].id \in Constructed(TRUE)
         /\ m_exts[i].id \notin Constructed(FALSE)
    /\ \A u \in Idx("Unload") :
         /\ trace[u].arg \in Constructed(TRUE)
         /\ trace[u].arg \notin Constructed(FALSE)

\* a shutdown after a load in which one extension was invalid and one valid:
\* exactly the valid one was unloaded
C16_Witness ==
    /\ phase = "destroyed"
    /\ Cardinality(Constructed(FALSE)) = 1
    /\ Cardinality(Constructed(TRUE)) = 1
    /\ Cardinality(Idx("Unload")) = 1

-----------------------------------------------------------------------------
(* C17 *)

\* C17: once the facade is constructed, the calls of the constructor are,
\* in this order: the localization loader is initialised, the settings are
\* constructed, the options object is made from them, the user settings
\* directory is ensured by one CreateDirectoryRecursive call (UNEXPECTED is
\* raised when it fails, and it is not called again), and the cached options
\* are loaded, after the options object was made; the settings and the
\* options object then exist.
C17_ConstructionOrder ==
    phase # "none" =>
        /\ Len(trace) >= 6
        /\ trace[1].op = "App"
        /\ trace[2].op = "InitResourceLoader"
        /\ trace[3].op = "new AppSettings"
        /\ trace[4].op = "MakeOptions"
        /\ trace[5].op = "CreateDirectoryRecursive"
        /\ LET last == IF trace[5].arg THEN 6 ELSE 7 IN
             /\ Len(trace) >= last
             /\ ~trace[5].arg => (trace[6].op = "UNEXPECTED"
                                    /\ trace[6].arg = "Could not create user settings folder")
             /\ trace[last].op = "LoadCache"
             /\ Len(trace) > last => IsCall(trace[last + 1])
        /\ Cardinality(Idx("CreateDirectoryRecursive")) = 1
        /\ Cardinality(Idx("LoadCache")) = 1
        /\ \A c \in Idx("LoadCache") : \A o \in Idx("MakeOptions") : o < c
        /\ phase = "constructed" => (m_settings = "alive" /\ options = "alive")

\* a construction in which the user settings directory could not be created
C17_Witness ==
    /\ phase = "constructed"
    /\ IsEv(5, "CreateDirectoryRecursive", FALSE)
    /\ IsEv(7, "LoadCache", "")
    /\ ~dirExists

-----------------------------------------------------------------------------
(* C18 *)

\* C18: as long as LoadExtensions has not been called the owned set is
\* empty, whatever else was called; a call of Init constructs no Extension,
\* leaves the owned set as it is and leaves a command dispatcher in place;
\* the owned set only grows in a call of LoadExtensions.
C18_InitLoadsNoExtensions ==
    /\ [](Idx("LoadExtensions") = {} => m_exts = << >>)
    /\ [][ StepIs("Init") =>
             /\ m_exts' = m_exts
             /\ \A i \in 1..Len(StepCalls) : StepCalls[i].op # "new Extension"
             /\ m_dispatch' = "alive" ]_vars
    /\ [][ Len(m_exts') > Len(m_exts) => StepIs("LoadExtensions") ]_vars

\* Init has been called twice and no extension is owned; the dispatcher exists
C18_Witness ==
    /\ phase = "constructed"
    /\ Cardinality(Idx("Init")) = 2
    /\ Idx("LoadExtensions") = {}
    /\ m_exts = << >>
    /\ m_dispatch = "alive"

-----------------------------------------------------------------------------
(* C19 *)

\* the text held by the buffer behind handle h of heap hp
TextOf(hp, h) == SubSeq(hp[HandleIndex(h)].chars, 1, _tcslen(hp[HandleIndex(h)].chars))

\* the value the call of this step returns
StepResult == trace'[Len(trace')].arg

-----------------------------------------------------------------------------
(* C20 *)

\* position i of trace is a call of RunExtensionCommand that took the fatal
\* path: UNEXPECTED was raised and nothing else was called
Fatal(i) ==
    /\ i + 1 <= Len(trace)
    /\ trace[i + 1].op = "UNEXPECTED"
    /\ i + 2 <= Len(trace) => IsCall(trace[i + 2])

\* position i of trace is a call of RunExtensionCommand that ran its command
\* as a script
RanAsScript(i) ==
    /\ i + 2 <= Len(trace)
    /\ trace[i + 1] = Ev("Script", trace[i].arg)
    /\ trace[i + 2] = Ev("Script.Run", trace[i].arg)

\* C20: a call of RunExtensionCommand with a string that holds a ':' takes
\* the fatal path exactly when the whole text before the first ':' is "ext",
\* letter for letter, and runs the string as a script exactly when it is
\* not: an empty runner id, "extra", "EXT" and " ext" are run as scripts.
C20_ReservedIdMatchedExactly ==
    \A i \in Idx("RunExtensionCommand") :
        HasColon(trace[i].arg) =>
            /\ Fatal(i) <=> BeforeColon(trace[i].arg) = <<"e", "x", "t">>
            /\ RanAsScript(i) <=> BeforeColon(trace[i].arg) # <<"e", "x", "t">>
            /\ BeforeColon(trace[i].arg) \in { << >>, <<"e", "x", "t", "r", "a">>,
                                               <<"E", "X", "T">>, <<" ", "e", "x", "t">> }
                 => RanAsScript(i)

\* RunExtensionCommand("EXT:foo") has been called and ran a script
C20_Witness ==
    /\ LastCall > 0
    /\ IsEv(LastCall, "RunExtensionCommand", <<"E", "X", "T", ":", "f", "o", "o">>)
    /\ RanAsScript(LastCall)

====
